---- MODULE Spec2Model ----
(***************************************************************************)
(* SettleInvoicing: the invoice registry contract, with the token ledger   *)
(* it calls.  A payInvoice call is split at its one external call          *)
(* (usdc.transferFrom): the ledger runs between PayEnter and               *)
(* TransferReturn and may call back into the registry.  A revert restores  *)
(* the state the reverted call frame started from.                         *)
(***************************************************************************)
EXTENDS Integers, Sequences, FiniteSets, TLC

\* ---------------------------------------------------------------- bounds
MaxInvoices == 2

\* ---------------------------------------------------------------- inputs
Zero == "0x0"
Freelancers == {"a"}
Clients == {"a", "b"}
Tokens == {"usdc", "evil"}
Callers == Freelancers \cup Clients \cup {"evil"}
\* The (amount, dueDate, uri) triples registered: each field takes its zero
\* value and another one.
Requests ==
    {<<0, 86400, "ipfs">>, <<1, 0, "ipfs">>, <<2, 86400, "">>}
Ids == 0 .. (MaxInvoices + 1)

\* ---------------------------------------------------------------- state
VARIABLES invoices, invoiceCount, events, balance, allowance, transfers,
          stack, last

vars == <<invoices, invoiceCount, events, balance, allowance, transfers,
          stack, last>>

\* The value of a storage slot never written: every field zero.
ZeroInvoice ==
    [freelancer |-> Zero, client |-> Zero, amount |-> 0, dueDate |-> 0,
     isPaid |-> FALSE, invoiceURI |-> ""]

\* Everything a revert restores: the registry's storage and log, and the
\* ledger's storage.
World ==
    [invoices |-> invoices, invoiceCount |-> invoiceCount, events |-> events,
     balance |-> balance, allowance |-> allowance, transfers |-> transfers]

\* The call that ended last, as its caller sees it: the arguments, the outcome
\* (result; for payInvoice also what the ledger returned and whether
\* transferFrom was invoked), the depth it ran at (0: a transaction of its
\* own) and the state it started from.
NoCall ==
    [op |-> "none", caller |-> Zero, id |-> 0, token |-> Zero, amount |-> 0,
     dueDate |-> 0, uri |-> "", result |-> "none", returned |-> "none",
     invoked |-> FALSE, depth |-> Len(stack), pre |-> World]

InvoiceCreated_NoAmount(id, freelancer, amount) ==
    [type |-> "InvoiceCreated", id |-> id, who |-> freelancer, amount |-> 0]

InvoiceCreated(id, freelancer, amount) ==
    [type |-> "InvoiceCreated", id |-> id, who |-> freelancer, amount |-> amount]

InvoicePaid(id, client) ==
    [type |-> "InvoicePaid", id |-> id, who |-> client, amount |-> 0]

Init ==
    /\ invoices = [i \in Ids |-> ZeroInvoice]
    /\ invoiceCount = 0
    /\ events = <<>>
    /\ balance = [w \in Callers |-> 2]
    /\ allowance = [w \in Callers |-> IF w = "b" THEN 1 ELSE 2]
    /\ transfers = <<>>
    /\ stack = <<>>
    /\ last = NoCall

\* msg.sender of a call: any account between transactions; inside a
\* transfer callback, the ledger that is running.
Sender(c, users) ==
    IF stack = <<>> THEN c \in users ELSE c = stack[Len(stack)].token

\* Code runs between transactions, or inside the callback of a ledger that
\* calls back.
CanCall == IF stack = <<>> THEN TRUE ELSE stack[Len(stack)].token = "evil"

\* ------------------------------------------------------- registerInvoice
NextId_Skip(count) == count + 2

\* invoiceCount++
NextId(count) == count + 1

WrittenSlot_Next(count) == count + 1

\* invoices[invoiceCount] = ...: the slot written, given the counter as
\* incremented.
WrittenSlot(count) == count

NewInvoice_Swapped(sender, amount, dueDate, uri) ==
    [freelancer |-> sender, client |-> Zero, amount |-> dueDate,
     dueDate |-> amount, isPaid |-> FALSE, invoiceURI |-> uri]

NewInvoice(sender, amount, dueDate, uri) ==
    [freelancer |-> sender, client |-> Zero, amount |-> amount,
     dueDate |-> dueDate, isPaid |-> FALSE, invoiceURI |-> uri]

registerInvoice(sender, amount, dueDate, uri) ==
    /\ CanCall
    /\ invoiceCount < MaxInvoices
    /\ LET count == NextId(invoiceCount) IN
        /\ invoiceCount' = count
        /\ invoices' = [invoices EXCEPT ![WrittenSlot(count)] =
                            NewInvoice(sender, amount, dueDate, uri)]
        /\ events' = Append(events, InvoiceCreated(count, sender, amount))
        /\ last' = [NoCall EXCEPT !.op = "register", !.caller = sender,
                       !.id = count, !.amount = amount, !.dueDate = dueDate,
                       !.uri = uri, !.result = "ok"]
    /\ UNCHANGED <<balance, allowance, transfers, stack>>

\* ------------------------------------------------------------ getInvoice
\* A view function: it returns the stored record and writes nothing.
getInvoice(id) == invoices[id]

\* ------------------------------------------------------------ payInvoice
PayChecks_NoPaidCheck(inv) ==
    IF ~(inv.amount > 0) THEN "NotFound" ELSE "ok"

PayChecks_ZeroAllowed(inv) ==
    IF inv.isPaid THEN "AlreadyPaid"
    ELSE IF ~(inv.amount >= 0) THEN "NotFound"
    ELSE "ok"

PayChecks_NoAmountCheck(inv) ==
    IF inv.isPaid THEN "AlreadyPaid" ELSE "ok"

\* The two require lines, in the code's order.
PayChecks(inv) ==
    IF inv.isPaid THEN "AlreadyPaid"
    ELSE IF ~(inv.amount > 0) THEN "NotFound"
    ELSE "ok"

StateBeforeTransfer_NoWrite(invs, id, sender) == invs

StateBeforeTransfer_ClearsAmount(invs, id, sender) ==
    [invs EXCEPT ![id].isPaid = TRUE, ![id].client = sender, ![id].amount = 0]

StateBeforeTransfer_NoClient(invs, id, sender) ==
    [invs EXCEPT ![id].isPaid = TRUE]

StateBeforeTransfer_PayeeAsClient(invs, id, sender) ==
    [invs EXCEPT ![id].isPaid = TRUE, ![id].client = invs[id].freelancer]

\* "Update state first": the writes made before the external call.
StateBeforeTransfer(invs, id, sender) ==
    [invs EXCEPT ![id].isPaid = TRUE, ![id].client = sender]

TransferArgs_Fee(inv, sender) ==
    [from |-> sender, to |-> inv.freelancer, amount |-> inv.amount - 1]

\* The arguments of usdc.transferFrom(msg.sender, inv.freelancer, inv.amount).
TransferArgs(inv, sender) ==
    [from |-> sender, to |-> inv.freelancer, amount |-> inv.amount]

PayOutcome_Unchecked(returned) ==
    IF returned = "revert" THEN "LedgerReverted" ELSE "ok"

\* require(success, ...): what the call does with the ledger's answer.  A
\* ledger that reverts takes the call with it.
PayOutcome(returned) ==
    IF returned = "true" THEN "ok"
    ELSE IF returned = "false" THEN "TransferRejected"
    ELSE "LedgerReverted"

\* payInvoice up to its external call.  A failed require leaves the state
\* as it was; otherwise the call is suspended in the ledger.
PayEnter(sender, id, token) ==
    /\ CanCall
    /\ LET check == PayChecks(invoices[id])
           after == StateBeforeTransfer(invoices, id, sender)
       IN IF check # "ok"
          THEN /\ last' = [NoCall EXCEPT !.op = "pay", !.caller = sender,
                              !.id = id, !.result = check]
               /\ UNCHANGED <<invoices, invoiceCount, events, balance,
                              allowance, transfers, stack>>
          ELSE /\ invoices' = after
               /\ stack' = Append(stack,
                      [id |-> id, caller |-> sender, token |-> token,
                       args |-> TransferArgs(after[id], sender),
                       snap |-> World])
               /\ last' = [NoCall EXCEPT !.op = "pay", !.caller = sender,
                              !.id = id, !.token = token, !.result = "called",
                              !.invoked = TRUE]
               /\ UNCHANGED <<invoiceCount, events, balance, allowance,
                              transfers>>

\* ---------------------------------------------------------- token ledger
\* The token of the fixtures: transferFrom moves the funds when the owner's
\* balance and the allowance given to the registry cover the amount.
UsdcCovers(args) ==
    /\ balance[args.from] >= args.amount
    /\ allowance[args.from] >= args.amount

UsdcMove(bal, args) ==
    [bal EXCEPT ![args.from] = @ - args.amount, ![args.to] = @ + args.amount]

UsdcSpend(allow, args) ==
    [allow EXCEPT ![args.from] = @ - args.amount]

\* What a ledger may answer: the fixtures' token succeeds when the funds are
\* covered and otherwise fails, by false or by reverting; any other contract
\* passed as the ledger answers what it likes.
Answers(f) ==
    IF f.token = "usdc"
    THEN IF UsdcCovers(f.args) THEN {"true"} ELSE {"false", "revert"}
    ELSE {"true", "false", "revert"}

Restore(snap) ==
    /\ invoices' = snap.invoices
    /\ invoiceCount' = snap.invoiceCount
    /\ events' = snap.events
    /\ balance' = snap.balance
    /\ allowance' = snap.allowance
    /\ transfers' = snap.transfers

\* The ledger returns to the suspended payInvoice, which ends.
TransferReturn(returned) ==
    /\ stack # <<>>
    /\ LET f == stack[Len(stack)]
           result == PayOutcome(returned)
       IN /\ returned \in Answers(f)
          /\ stack' = SubSeq(stack, 1, Len(stack) - 1)
          /\ last' = [op |-> "pay", caller |-> f.caller, id |-> f.id,
                      token |-> f.token, amount |-> 0, dueDate |-> 0,
                      uri |-> "", result |-> result, returned |-> returned,
                      invoked |-> TRUE, depth |-> Len(stack) - 1,
                      pre |-> f.snap]
          /\ IF result = "ok"
             THEN /\ events' = Append(events, InvoicePaid(f.id, f.caller))
                  /\ IF f.token = "usdc" /\ returned = "true"
                     THEN /\ balance' = UsdcMove(balance, f.args)
                          /\ allowance' = UsdcSpend(allowance, f.args)
                     ELSE UNCHANGED <<balance, allowance>>
                  /\ transfers' = IF returned = "true"
                        THEN Append(transfers, [id |-> f.id, token |-> f.token,
                                                args |-> f.args])
                        ELSE transfers
                  /\ UNCHANGED <<invoices, invoiceCount>>
             ELSE Restore(f.snap)

\* ------------------------------------------------------------ observers
\* The state between transactions: while a transaction runs, what the chain
\* holds is the state the transaction started from.
Committed == IF stack = <<>> THEN World ELSE stack[1].snap

PaidEvents(log, id) ==
    {k \in DOMAIN log : log[k].type = "InvoicePaid" /\ log[k].id = id}

TransfersOf(log, id) == {k \in DOMAIN log : log[k].id = id}

\* ------------------------------------------------------------------- C1
\* C1: no invoice is paid twice.  Between transactions an invoice that is
\* paid stays paid in every later state, and the log never holds more than
\* one InvoicePaid event per identifier, nested calls included.
C1_NeverPaidTwice ==
    /\ [](\A i \in Ids :
            /\ Cardinality(PaidEvents(events, i)) <= 1
            /\ Cardinality(PaidEvents(Committed.events, i)) <= 1
            /\ Committed.invoices[i].isPaid
                  <=> PaidEvents(Committed.events, i) # {})
    /\ [][\A i \in Ids : Committed.invoices[i].isPaid
                            => Committed'.invoices[i].isPaid]_vars

\* A paid invoice on which a later transaction attempted Pay again.
C1_Witness ==
    /\ stack = <<>>
    /\ last.op = "pay" /\ last.result = "AlreadyPaid"
    /\ invoices[last.id].isPaid
    /\ Cardinality(PaidEvents(events, last.id)) = 1

\* ------------------------------------------------------------------- C2
\* C2: payInvoice writes isPaid and client before it calls transferFrom, so
\* throughout the transfer callback the invoice being paid reads as paid by
\* the caller; a nested payInvoice of the same identifier fails with
\* AlreadyPaid; and no invoice has more than one successful transferFrom.
C2_WriteBeforeCall ==
    /\ \A k \in DOMAIN stack :
          /\ invoices[stack[k].id].isPaid
          /\ invoices[stack[k].id].client = stack[k].caller
    /\ (last.op = "pay" /\ last.result # "called" /\ last.depth = Len(stack)
          /\ \E k \in DOMAIN stack : stack[k].id = last.id)
          => (last.result = "AlreadyPaid" /\ ~last.invoked)
    /\ \A i \in Ids : Cardinality(TransfersOf(transfers, i)) <= 1

\* A payInvoice made from inside the transfer callback of the same invoice.
C2_Witness ==
    /\ stack # <<>>
    /\ last.op = "pay" /\ last.depth = Len(stack)
    /\ last.id = stack[Len(stack)].id
    /\ last.result = "AlreadyPaid"

\* ------------------------------------------------------------------- C3
\* C3: when transferFrom returns false the payInvoice fails with
\* TransferRejected and everything is as before the call: the invoice is
\* unpaid with no client, the log and the balances are unchanged, and a later
\* payInvoice passes both checks again.
C3_RejectedTransferUndone ==
    (last.op = "pay" /\ last.returned = "false")
        => /\ last.result = "TransferRejected"
           /\ World = last.pre
           /\ ~invoices[last.id].isPaid
           /\ invoices[last.id].client = Zero
           /\ PaidEvents(events, last.id) = {}
           /\ PayChecks(invoices[last.id]) = "ok"

\* The fixtures' token refused a transfer the payer could not cover.
C3_Witness ==
    /\ last.op = "pay" /\ last.returned = "false" /\ last.token = "usdc"
    /\ last.result = "TransferRejected"
    /\ last.pre.invoices[last.id].amount > allowance[last.caller]

\* ------------------------------------------------------------------- C4
\* C4: a payInvoice of a registered unpaid invoice with amount > 0 reaches
\* the transfer, and when the transfer succeeds the call succeeds: the
\* invoice is paid, its client is the caller, and the log ends with the one
\* InvoicePaid(id, caller) event there is for the identifier.
C4_PaySucceeds ==
    /\ (last.op = "pay" /\ ~last.pre.invoices[last.id].isPaid
            /\ last.pre.invoices[last.id].amount > 0)
          => (last.invoked /\ last.result \notin {"AlreadyPaid", "NotFound"})
    /\ (last.op = "pay" /\ last.returned = "true")
          => /\ last.result = "ok"
             /\ ~last.pre.invoices[last.id].isPaid
             /\ last.pre.invoices[last.id].amount > 0
             /\ invoices[last.id].isPaid
             /\ invoices[last.id].client = last.caller
             /\ events # <<>>
             /\ events[Len(events)] = InvoicePaid(last.id, last.caller)
             /\ Cardinality(PaidEvents(events, last.id)) = 1
             /\ PaidEvents(last.pre.events, last.id) = {}

\* A caller that is not the payee has paid an invoice.
C4_Witness ==
    /\ last.op = "pay" /\ last.result = "ok"
    /\ last.caller # invoices[last.id].freelancer
    /\ invoices[last.id].isPaid

\* ------------------------------------------------------------------- C5
\* C5 as stated: every successful payInvoice through the token raises the
\* payee's balance by amount and lowers the caller's balance by amount.
C5_Original ==
    (last.op = "pay" /\ last.result = "ok" /\ last.token = "usdc")
        => LET inv == invoices[last.id] IN
           /\ balance[inv.freelancer] = last.pre.balance[inv.freelancer] + inv.amount
           /\ balance[last.caller] = last.pre.balance[last.caller] - inv.amount

\* C5 amended: a successful payInvoice through the token by a caller other
\* than the payee raises the payee's balance by amount and lowers the
\* caller's by amount; when the caller is the payee no balance changes.  No
\* other account's balance changes, and the caller's allowance drops by
\* amount.
C5_ExactTransfer ==
    (last.op = "pay" /\ last.result = "ok" /\ last.token = "usdc")
        => LET inv == invoices[last.id] IN
           /\ last.caller # inv.freelancer
                 => /\ balance[inv.freelancer]
                          = last.pre.balance[inv.freelancer] + inv.amount
                    /\ balance[last.caller]
                          = last.pre.balance[last.caller] - inv.amount
           /\ last.caller = inv.freelancer => balance = last.pre.balance
           /\ \A w \in Callers \ {last.caller, inv.freelancer} :
                 balance[w] = last.pre.balance[w]
           /\ allowance[last.caller]
                 = last.pre.allowance[last.caller] - inv.amount

\* Client b has paid freelancer a's invoice through the token.
C5_Witness ==
    /\ last.op = "pay" /\ last.result = "ok" /\ last.token = "usdc"
    /\ last.caller # invoices[last.id].freelancer
    /\ balance[last.caller] < last.pre.balance[last.caller]

\* ------------------------------------------------------------------- C6
\* C6: a payInvoice of an invoice that is already paid fails with
\* AlreadyPaid for every caller and ledger, without invoking transferFrom,
\* and leaves the records, the counter, the log and the balances as they
\* were.
C6_AlreadyPaidNoEffect ==
    (last.op = "pay" /\ last.pre.invoices[last.id].isPaid)
        => /\ last.result = "AlreadyPaid"
           /\ ~last.invoked
           /\ last.returned = "none"
           /\ World = last.pre

\* A caller other than the one that paid tried to pay the invoice again.
C6_Witness ==
    /\ last.op = "pay" /\ last.result = "AlreadyPaid"
    /\ invoices[last.id].isPaid
    /\ last.caller # invoices[last.id].client

\* ------------------------------------------------------------------- C7
\* C7: a payInvoice of an identifier never issued (0, or above the counter)
\* fails with NotFound, without invoking transferFrom, and leaves the
\* records, the counter, the log and the balances as they were.
C7_NotFoundNoEffect ==
    (last.op = "pay" /\ (last.id = 0 \/ last.id > last.pre.invoiceCount))
        => /\ last.result = "NotFound"
           /\ ~last.invoked
           /\ last.returned = "none"
           /\ World = last.pre

\* Pay of an identifier above the counter, with invoices already issued.
C7_Witness ==
    /\ last.op = "pay" /\ last.result = "NotFound"
    /\ invoiceCount > 0 /\ last.id > invoiceCount

\* ------------------------------------------------------------------- C8
CreatedEvents(log) == SelectSeq(log, LAMBDA e : e.type = "InvoiceCreated")

\* C8: identifiers are issued 1, 2, 3, ... in order: each registerInvoice
\* returns the previous counter plus one, the k-th InvoiceCreated event of
\* the log carries identifier k, the counter between transactions never
\* decreases, and no step of a payInvoice changes the counter other than by
\* undoing the whole call.
C8_GaplessIdentifiers ==
    /\ [](LET created == CreatedEvents(events) IN
            /\ Len(created) = invoiceCount
            /\ \A k \in DOMAIN created : created[k].id = k
            /\ last.op = "register"
                  => /\ last.id = last.pre.invoiceCount + 1
                     /\ invoiceCount = last.id)
    /\ [][/\ Committed'.invoiceCount >= Committed.invoiceCount
          /\ (last'.op = "pay")
                => (\/ invoiceCount' = invoiceCount
                    \/ /\ last'.result \in {"TransferRejected", "LedgerReverted"}
                       /\ invoiceCount' = last'.pre.invoiceCount)
          /\ (last'.op = "pay" /\ last'.result \in {"AlreadyPaid", "NotFound"})
                => invoiceCount' = invoiceCount]_vars

\* The second registerInvoice has returned 2.
C8_Witness ==
    /\ last.op = "register" /\ last.id = 2 /\ invoiceCount = 2
    /\ \E i \in Ids : invoices[i].isPaid

\* ------------------------------------------------------------------- C9
\* C9: getInvoice of the identifier registerInvoice returned, read right
\* after it, is the caller as freelancer, no client, isPaid false, and the
\* amount, dueDate and uri that were passed.
C9_RegisterThenGet ==
    last.op = "register"
        => getInvoice(last.id) =
              [freelancer |-> last.caller, client |-> Zero,
               amount |-> last.amount, dueDate |-> last.dueDate,
               isPaid |-> FALSE, invoiceURI |-> last.uri]

\* An invoice registered with a dueDate and an empty uri.
C9_Witness ==
    /\ last.op = "register" /\ last.result = "ok"
    /\ last.amount = 2 /\ last.dueDate = 86400 /\ last.uri = ""

\* ------------------------------------------------------------------ C10
\* C10: the record at every identifier not issued (0, and those above the
\* counter) is all zero, and getInvoice returns it.
C10_UnissuedAreZero ==
    \A i \in Ids :
        (i = 0 \/ i > invoiceCount) => getInvoice(i) = ZeroInvoice

\* One invoice is issued and a payInvoice of it through a ledger that calls
\* back was undone: the slots 0 and 2 read all zero.
C10_Witness ==
    /\ invoiceCount = 1 /\ invoices[1].amount > 0
    /\ last.op = "pay" /\ last.result = "TransferRejected"
    /\ last.token = "evil"
    /\ getInvoice(0) = ZeroInvoice /\ getInvoice(2) = ZeroInvoice

\* ------------------------------------------------------------------ C11
CreatedOf(log, id) ==
    {k \in DOMAIN log : log[k].type = "InvoiceCreated" /\ log[k].id = id}

\* The log of state w agrees with its records; the invoices in `pending`
\* are being paid by a suspended call, which has set isPaid and has not yet
\* emitted its event.
EventsMatch(w, pending) ==
    /\ \A i \in Ids :
          IF i >= 1 /\ i <= w.invoiceCount
          THEN /\ Cardinality(CreatedOf(w.events, i)) = 1
               /\ \A k \in CreatedOf(w.events, i) :
                     /\ w.events[k].who = w.invoices[i].freelancer
                     /\ w.events[k].amount = w.invoices[i].amount
          ELSE CreatedOf(w.events, i) = {} /\ PaidEvents(w.events, i) = {}
    /\ \A i \in Ids \ pending :
          /\ w.invoices[i].isPaid <=> PaidEvents(w.events, i) # {}
          /\ Cardinality(PaidEvents(w.events, i)) <= 1
    /\ \A i \in pending : PaidEvents(w.events, i) = {}
    /\ \A i \in Ids : \A k \in PaidEvents(w.events, i) :
          /\ w.events[k].who = w.invoices[i].client
          /\ \E c \in CreatedOf(w.events, i) : c < k

Failed(call) ==
    call.result \in {"AlreadyPaid", "NotFound", "TransferRejected",
                     "LedgerReverted"}

\* C11: events match effects.  Between operations each issued identifier
\* has exactly one InvoiceCreated event, carrying the stored freelancer and
\* amount; an InvoicePaid(id, .) event exists exactly when invoice id is
\* paid, carries the stored client and comes after InvoiceCreated(id); and a
\* failed call leaves the log and the state as they were before it.  The
\* same holds inside a transaction, but for the invoices whose payInvoice
\* is suspended in the ledger.
C11_EventsMatchEffects ==
    /\ EventsMatch(Committed, {})
    /\ EventsMatch(World, {stack[k].id : k \in DOMAIN stack})
    /\ Failed(last) => World = last.pre

\* Between transactions: one invoice paid and logged, one registered and
\* unpaid, and the call that just ended failed.
C11_Witness ==
    /\ stack = <<>> /\ invoiceCount = 2
    /\ Failed(last)
    /\ \E i \in Ids : invoices[i].isPaid /\ PaidEvents(events, i) # {}
    /\ \E i \in 1 .. invoiceCount : ~invoices[i].isPaid

\* ------------------------------------------------------------------ C12
\* C12: registerInvoice with amount 0 succeeds and takes the next
\* identifier; every payInvoice of such an invoice fails with NotFound and
\* changes nothing, and the invoice is unpaid, with no client, in every
\* reachable state.
C12_ZeroAmountNeverPaid ==
    /\ (last.op = "register" /\ last.amount = 0)
          => /\ last.result = "ok"
             /\ last.id = last.pre.invoiceCount + 1
             /\ invoiceCount = last.id
             /\ invoices[last.id].freelancer = last.caller
    /\ (last.op = "pay" /\ last.id >= 1 /\ last.id <= last.pre.invoiceCount
            /\ last.pre.invoices[last.id].amount = 0)
          => /\ last.result = "NotFound"
             /\ ~last.invoked
             /\ World = last.pre
    /\ \A i \in 1 .. invoiceCount :
          invoices[i].amount = 0
             => ~invoices[i].isPaid /\ invoices[i].client = Zero

\* A registered zero-amount invoice on which payInvoice was tried.
C12_Witness ==
    /\ last.op = "pay" /\ last.result = "NotFound"
    /\ last.id >= 1 /\ last.id <= invoiceCount
    /\ invoices[last.id].freelancer # Zero
    /\ invoices[last.id].amount = 0
    /\ ~invoices[last.id].isPaid

\* ------------------------------------------------------------------ C13
\* The fields of a record set at registration.
Terms(inv) == <<inv.freelancer, inv.amount, inv.dueDate, inv.invoiceURI>>

\* C13: each call writes one record only.  registerInvoice changes the
\* counter and the record it issues; payInvoice, up to its external call,
\* changes isPaid and client of its invoice and nothing else, and writes
\* nothing when the ledger has returned true; a failed payInvoice leaves the
\* state it started from.  So freelancer, amount, dueDate and uri of an
\* issued invoice never change, and a payInvoice through a ledger that does
\* not call back changes no record but its own.
C13_OneRecordPerCall ==
    /\ [](/\ last.op = "register"
               => /\ invoiceCount = last.pre.invoiceCount + 1
                  /\ \A i \in Ids \ {last.id} :
                        invoices[i] = last.pre.invoices[i]
                  /\ balance = last.pre.balance
                  /\ allowance = last.pre.allowance
          /\ (last.op = "pay" /\ last.result = "called")
               => /\ invoices = [last.pre.invoices EXCEPT
                          ![last.id].isPaid = TRUE,
                          ![last.id].client = last.caller]
                  /\ invoiceCount = last.pre.invoiceCount
                  /\ events = last.pre.events
                  /\ balance = last.pre.balance
          /\ (last.op = "pay" /\ last.result = "ok" /\ last.token = "usdc")
               => /\ invoices = [last.pre.invoices EXCEPT
                          ![last.id].isPaid = TRUE,
                          ![last.id].client = last.caller]
                  /\ invoiceCount = last.pre.invoiceCount
          /\ Failed(last) => World = last.pre)
    /\ [][/\ (last'.op = "pay" /\ last'.result = "ok")
               => (invoices' = invoices /\ invoiceCount' = invoiceCount)
          /\ invoices' # invoices
               => \A i \in 1 .. invoiceCount :
                     i <= invoiceCount'
                        => Terms(invoices'[i]) = Terms(invoices[i])
          /\ stack' = <<>>
               => \A i \in 1 .. Committed.invoiceCount :
                     Terms(invoices'[i]) = Terms(Committed.invoices[i])]_vars

\* Two invoices issued; one was paid and the other, payable, is as it was.
C13_Witness ==
    /\ last.op = "pay" /\ last.result = "ok" /\ invoiceCount = 2
    /\ \E j \in (1 .. invoiceCount) \ {last.id} :
          /\ invoices[j].amount > 0
          /\ ~invoices[j].isPaid
          /\ invoices[j] = last.pre.invoices[j]

\* ------------------------------------------------------------------ C14
\* C14: in every state, between operations and inside them, an invoice's
\* client is the zero address exactly when isPaid is false; the client of a
\* paid invoice is the caller of the payInvoice that succeeded, as its
\* InvoicePaid event records; and between transactions the client of a paid
\* invoice never changes.
C14_ClientIffPaid ==
    /\ [](/\ \A i \in Ids :
               /\ invoices[i].client = Zero <=> ~invoices[i].isPaid
               /\ Committed.invoices[i].client = Zero
                     <=> ~Committed.invoices[i].isPaid
               /\ \A k \in PaidEvents(Committed.events, i) :
                     Committed.events[k].who = Committed.invoices[i].client
          /\ (last.op = "pay" /\ last.result \in {"called", "ok"})
               => /\ invoices[last.id].client = last.caller
                  /\ last.pre.invoices[last.id].client = Zero)
    /\ [][\A i \in Ids :
             Committed.invoices[i].isPaid
                => Committed'.invoices[i].client
                      = Committed.invoices[i].client]_vars

\* Between transactions: an invoice paid by one client, on which the other
\* client then tried payInvoice.
C14_Witness ==
    /\ stack = <<>>
    /\ last.op = "pay" /\ last.result = "AlreadyPaid"
    /\ invoices[last.id].client \notin {Zero, last.caller}
    /\ \E k \in PaidEvents(events, last.id) :
          events[k].who = invoices[last.id].client
    /\ \E i \in 1 .. invoiceCount :
          ~invoices[i].isPaid /\ invoices[i].client = Zero

\* ------------------------------------------------------------------ C15
\* C15: an invoice is paid only if its payee received the amount: whatever
\* ledger the caller passed, when a payInvoice by a caller other than the
\* payee has succeeded the payee holds at least amount more than before the
\* call.  (balance is the balance on the fixtures' token, the one ledger
\* that holds funds; the other contract passed as a ledger answers
\* transferFrom and moves nothing.)
C15_PaidOnlyIfFunded ==
    (last.op = "pay" /\ last.result = "ok"
        /\ last.caller # invoices[last.id].freelancer)
        => /\ invoices[last.id].isPaid
           /\ balance[invoices[last.id].freelancer]
                 >= last.pre.balance[invoices[last.id].freelancer]
                       + invoices[last.id].amount

\* ------------------------------------------------------------------ C16
\* C16: calls made from the transfer callback share the fate of the
\* payInvoice that is suspended.  When transferFrom returns false the call
\* fails with TransferRejected and the counter, the records, the log and the
\* balances are those the call started from, whatever the nested calls
\* registered or paid; when it returns true the call adds its InvoicePaid
\* event and keeps the counter, the records and the log the nested calls
\* left.  Either way the identifiers of the log run 1, 2, ... up to the
\* counter and no identifier has two InvoicePaid events.
C16_NestedShareFate ==
    /\ [](/\ (last.op = "pay" /\ last.returned = "false")
               => (last.result = "TransferRejected" /\ World = last.pre)
          /\ LET created == CreatedEvents(events) IN
               /\ Len(created) = invoiceCount
               /\ \A k \in DOMAIN created : created[k].id = k
          /\ \A i \in Ids : Cardinality(PaidEvents(events, i)) <= 1)
    /\ [][/\ (last'.op = "pay" /\ last'.result = "TransferRejected")
               => /\ invoiceCount' = stack[Len(stack)].snap.invoiceCount
                  /\ invoices' = stack[Len(stack)].snap.invoices
                  /\ events' = stack[Len(stack)].snap.events
                  /\ balance' = stack[Len(stack)].snap.balance
          /\ (last'.op = "pay" /\ last'.result = "ok")
               => /\ invoiceCount' = invoiceCount
                  /\ invoices' = invoices
                  /\ events' = Append(events,
                                      InvoicePaid(last'.id, last'.caller))]_vars

\* A payInvoice through a ledger that calls back has succeeded as a
\* transaction, and the invoice registered and paid from inside its callback
\* is still there, paid.
C16_Witness ==
    /\ stack = <<>>
    /\ last.op = "pay" /\ last.result = "ok" /\ last.token = "evil"
    /\ invoiceCount > last.pre.invoiceCount
    /\ \E j \in (1 .. invoiceCount) \ {last.id} :
          /\ j > last.pre.invoiceCount
          /\ invoices[j].isPaid
          /\ PaidEvents(events, j) # {}

Next ==
    \/ \E c \in Callers, r \in Requests :
          Sender(c, Freelancers) /\ registerInvoice(c, r[1], r[2], r[3])
    \/ \E c \in Callers, id \in Ids, t \in Tokens :
          Sender(c, Clients) /\ PayEnter(c, id, t)
    \/ \E r \in {"true", "false", "revert"} : TransferReturn(r)

Spec == Init /\ [][Next]_vars
====
